---- MODULE Spec2Model ----
(***************************************************************************)
(* A model of the immutree crate (crates/immutree): the append-only tree   *)
(* container Tree<T>, its insert operation and its read-only queries.      *)
(*                                                                         *)
(* Rust values are encoded as tuples tagged by their variant:              *)
(*   Option<T>      <<"None">>            <<"Some", x>>                    *)
(*   Result<T, E>   <<"Ok", x>>           <<"Err", e>>                     *)
(*   Error          <<"RootReplacement">> <<"NonExistentParent", id>>      *)
(*                  <<"InvalidNodeId", id>>                                *)
(*   InsertMode     <<"AsRoot">>          <<"Under", parent_id>>           *)
(* A Vec is a sequence; the Vec index i is the sequence index i + 1.       *)
(* NodeId is u32; the model scales the width down to a number of bits so   *)
(* that the arithmetic on next_node_id stays the code's modular one.       *)
(***************************************************************************)
EXTENDS Integers, Sequences, FiniteSets, TLC

\* ------------------------------------------------------------------ bounds

\* Largest number of nodes a store holds in the specification Spec.
MaxNodes == 4

\* Width of NodeId in Spec: wide enough that MaxNodes inserts never exhaust it.
IdBits == 4

\* Width of NodeId in SpecWrap: narrow enough that the id range is exhausted.
WrapBits == 2

\* Largest number of nodes a store holds in SpecWrap (beyond 2^WrapBits).
MaxNodesWrap == 6

\* Largest number of nodes a store holds in SpecDe.
MaxNodesDe == 3

\* SpecTopo: native hierarchies of at most MaxObjs objects, memory children
\* not counted.
MaxObjs == 5

\* Payloads handed to insert.
Data == {"a", "b"}

\* The largest Topology read from a document.
MaxElems == 3

\* Ids handed to the queries and to Under: the valid ones and two beyond.
Ids == 0..(MaxNodes + 1)

\* ------------------------------------------------------ Option and Result

None == <<"None">>

Some(x) == <<"Some", x>>

is_some(o) == o[1] = "Some"

is_none(o) == o[1] = "None"

unwrap(o) == o[2]

Ok(x) == <<"Ok", x>>

Err(e) == <<"Err", e>>

is_ok(r) == r[1] = "Ok"

is_err(r) == r[1] = "Err"

\* A call that returns a plain value (neither an Option nor a Result).
Value(x) == <<"Value", x>>

\* A panic of the running thread: the call never returns.
Panic(msg) == <<"Panic", msg>>

is_panic(r) == r[1] = "Panic"

\* ------------------------------------------------------------ types.rs

RootReplacement == <<"RootReplacement">>

NonExistentParent(id) == <<"NonExistentParent", id>>

InvalidNodeId(id) == <<"InvalidNodeId", id>>

AsRoot == <<"AsRoot">>

Under(parent_id) == <<"Under", parent_id>>

\* Vec::contains
contains(v, x) == \E i \in 1..Len(v) : v[i] = x

\* A plausible slip: a fresh node starts with an empty child list.
TreeNode_from_empty_list(data) == [data |-> data, children |-> Some(<<>>)]

\* impl From<T> for TreeNode<T>: a fresh node has no child list at all.
TreeNode_from(data) == [data |-> data, children |-> None]

\* A plausible slip: the list is created on first use but the id is not pushed.
add_child_id_forgets_first(tn, id) ==
    IF is_some(tn.children)
    THEN [tn EXCEPT !.children = Some(Append(unwrap(tn.children), id))]
    ELSE [tn EXCEPT !.children = Some(<<>>)]

\* A plausible slip: the id is inserted at the front instead of pushed.
add_child_id_prepends(tn, id) ==
    LET v == IF is_some(tn.children) THEN unwrap(tn.children) ELSE <<>>
    IN  [tn EXCEPT !.children = Some(<<id>> \o v)]

\* TreeNode::add_child_id: children.get_or_insert(vec![]).push(id)
add_child_id(tn, id) ==
    LET v == IF is_some(tn.children) THEN unwrap(tn.children) ELSE <<>>
    IN  [tn EXCEPT !.children = Some(Append(v, id))]

\* --------------------------------------------------------------- lib.rs

\* Tree::new (and with_capacity, which differs only in the allocation).
new == [nodes |-> <<>>, next_node_id |-> 0]

\* Tree::len
len(self) == Len(self.nodes)

\* Tree::is_empty
is_empty(self) == 0 = Len(self.nodes)

\* A plausible slip: the id is used as a 1-based position.
get_by_id_off_by_one(self, id) ==
    IF id >= 1 /\ id <= Len(self.nodes) THEN Some(self.nodes[id].data) ELSE None

\* Tree::get_by_id: nodes.get(id).map(|tn| &tn.data)
get_by_id(self, id) ==
    IF id < Len(self.nodes) THEN Some(self.nodes[id + 1].data) ELSE None

\* Tree::root
root(self) == get_by_id(self, 0)

\* A plausible slip: the 1-based position of the hit is returned as the id.
parent_id_off_by_one(self, id) ==
    LET hits == {i \in 1..Len(self.nodes) :
                    /\ is_some(self.nodes[i].children)
                    /\ contains(unwrap(self.nodes[i].children), id)}
    IN  IF hits = {} THEN None
        ELSE Some(CHOOSE i \in hits : \A j \in hits : i <= j)

\* Tree::parent_id: the first node, in index order, whose child list is
\* present and contains id.
parent_id(self, id) ==
    LET hits == {i \in 1..Len(self.nodes) :
                    /\ is_some(self.nodes[i].children)
                    /\ contains(unwrap(self.nodes[i].children), id)}
    IN  IF hits = {} THEN None
        ELSE Some((CHOOSE i \in hits : \A j \in hits : i <= j) - 1)

\* Tree::parent: as parent_id, but yields the payload of the node found.
parent(self, id) ==
    LET p == parent_id(self, id)
    IN  IF is_some(p) THEN Some(self.nodes[unwrap(p) + 1].data) ELSE None

\* `x as u32` on a usize, for a NodeId of the given width: truncation.
as_u32(x, bits) == x % (2 ^ bits)

\* A plausible slip: the counter read from a document is used as it is.
recompute_next_node_id_never(self, bits) == self.next_node_id

\* insert, lines 316-318: a counter of 0 on a non-empty store is recomputed
\* from the length.
recompute_next_node_id(self, bits) ==
    IF 0 = self.next_node_id /\ ~is_empty(self)
    THEN as_u32(len(self), bits)
    ELSE self.next_node_id

\* A plausible slip: the root may be replaced while it has no child yet.
root_replacement_late(mode, next_node_id) ==
    mode[1] = "AsRoot" /\ 1 < next_node_id

\* insert, line 321: matches!(mode, AsRoot) && 0 != self.next_node_id
root_replacement(mode, next_node_id) ==
    mode[1] = "AsRoot" /\ 0 # next_node_id

\* A plausible slip: > in place of >=.
non_existent_parent_strict(mode, next_node_id) ==
    mode[1] = "Under" /\ mode[2] > next_node_id

\* insert, lines 326-331: Under(parent_id) with parent_id >= self.next_node_id
non_existent_parent(mode, next_node_id) ==
    mode[1] = "Under" /\ mode[2] >= next_node_id

\* A plausible slip: the parent's own id is linked instead of the new one.
link_child_wrong_id(nodes, mode, next_node_id) ==
    IF mode[1] = "Under"
    THEN [nodes EXCEPT ![mode[2] + 1] = add_child_id(@, mode[2])]
    ELSE nodes

\* insert, line 336: self.nodes[parent_id].add_child_id(&self.next_node_id)
link_child(nodes, mode, next_node_id) ==
    IF mode[1] = "Under"
    THEN [nodes EXCEPT ![mode[2] + 1] = add_child_id(@, next_node_id)]
    ELSE nodes

\* A plausible slip: the counter itself is returned, not the id just given.
returned_id_no_decrement(next_node_id, bits) == next_node_id

\* insert, line 343: self.next_node_id - 1, wrapping when checks are off.
returned_id(next_node_id, bits) == (next_node_id + (2 ^ bits) - 1) % (2 ^ bits)

\* A plausible slip: the counter is advanced before the checks.
rejected_after_bump(self, next_node_id, error) ==
    [tree |-> [self EXCEPT !.next_node_id = next_node_id + 1], result |-> Err(error)]

\* insert, lines 321-331: `return Err(..)`; of the call only the recomputed
\* counter stays.
rejected(self, next_node_id, error) ==
    [tree |-> [self EXCEPT !.next_node_id = next_node_id], result |-> Err(error)]

\* Tree::insert for a NodeId of `bits` bits. `self.next_node_id += 1`
\* overflows when the counter holds the largest id: with overflow checks
\* (the debug profile) the thread panics there, after the node was pushed;
\* without them (the release profile) the counter wraps to 0.
\* `self.nodes[parent_id]` panics when parent_id is not an index of nodes.
\* Yields the store after the call and what the call returned.
insert(self, element, mode, bits, overflow_checks) ==
    LET next   == recompute_next_node_id(self, bits)
        s1     == [self EXCEPT !.next_node_id = next]
        linked == link_child(self.nodes, mode, next)
        pushed == Append(linked, TreeNode_from(element))
    IN  IF root_replacement(mode, next)
        THEN rejected(self, next, RootReplacement)
        ELSE IF non_existent_parent(mode, next)
        THEN rejected(self, next, NonExistentParent(mode[2]))
        ELSE IF mode[1] = "Under" /\ mode[2] >= len(self)
        THEN [tree |-> s1, result |-> Panic("index out of bounds")]
        ELSE IF next + 1 >= 2 ^ bits /\ overflow_checks
        THEN [tree   |-> [nodes |-> pushed, next_node_id |-> next],
              result |-> Panic("attempt to add with overflow")]
        ELSE LET bumped == (next + 1) % (2 ^ bits)
             IN  [tree   |-> [nodes |-> pushed, next_node_id |-> bumped],
                  result |-> Ok(returned_id(bumped, bits))]

\* ---------------------------------------------------------- iterators.rs

\* ImmediateDescendantIds::try_new: the iterator holds the slice iterator of
\* the child list (the part of the list not yet yielded), if there is a list.
ImmediateDescendantIds_try_new(tree, id) ==
    IF id < Len(tree.nodes)
    THEN Ok(tree.nodes[id + 1].children)
    ELSE Err(InvalidNodeId(id))

\* A plausible slip: next() takes from the back of the slice.
ImmediateDescendantIds_next_from_back(it) ==
    IF is_some(it) /\ Len(unwrap(it)) > 0
    THEN [item |-> Some(unwrap(it)[Len(unwrap(it))]),
          it   |-> Some(SubSeq(unwrap(it), 1, Len(unwrap(it)) - 1))]
    ELSE [item |-> None, it |-> it]

\* ImmediateDescendantIds::next: the item yielded and the iterator left.
ImmediateDescendantIds_next(it) ==
    IF is_some(it) /\ Len(unwrap(it)) > 0
    THEN [item |-> Some(Head(unwrap(it))), it |-> Some(Tail(unwrap(it)))]
    ELSE [item |-> None, it |-> it]

RECURSIVE ImmediateDescendantIds_collect(_)
\* Iterator::collect on ImmediateDescendantIds: next() until it yields None.
ImmediateDescendantIds_collect(it) ==
    LET step == ImmediateDescendantIds_next(it)
    IN  IF is_none(step.item) THEN <<>>
        ELSE <<unwrap(step.item)>> \o ImmediateDescendantIds_collect(step.it)

\* Tree::immediate_descendant_ids, consumed to the end.
immediate_descendant_ids(self, id) ==
    LET r == ImmediateDescendantIds_try_new(self, id)
    IN  IF is_ok(r) THEN Ok(ImmediateDescendantIds_collect(r[2])) ELSE r

\* ImmediateDescendants: each child id mapped through get_by_id, the
\* sequence ending at the first id that is not in the store.
RECURSIVE ImmediateDescendants_collect(_, _)
ImmediateDescendants_collect(tree, it) ==
    LET step == ImmediateDescendantIds_next(it)
    IN  IF is_none(step.item) THEN <<>>
        ELSE LET e == get_by_id(tree, unwrap(step.item))
             IN  IF is_none(e) THEN <<>>
                 ELSE <<unwrap(e)>> \o ImmediateDescendants_collect(tree, step.it)

\* Tree::immediate_descendants, consumed to the end.
immediate_descendants(self, id) ==
    LET r == ImmediateDescendantIds_try_new(self, id)
    IN  IF is_ok(r) THEN Ok(ImmediateDescendants_collect(self, r[2])) ELSE r

\* LeafIds::try_new: the stack starts with the node asked for. The stack
\* holds pairs (id, &TreeNode); the node is the one at index id, so the model
\* keeps the ids.
LeafIds_try_new(tree, id) ==
    IF id < Len(tree.nodes) THEN Ok(<<id>>) ELSE Err(InvalidNodeId(id))

\* A plausible slip: the children are pushed last to first, so the first one
\* is topmost.
LeafIds_extend_reversed(stack, children) ==
    stack \o [i \in 1..Len(children) |-> children[Len(children) + 1 - i]]

\* The stack after stack.extend(children ...): the children on top, the last
\* one topmost.
LeafIds_extend(stack, children) == stack \o children

RECURSIVE LeafIds_next_yields_inner(_, _)
\* A plausible slip: the node popped is yielded whether or not it has a list.
LeafIds_next_yields_inner(tree, stack) ==
    IF Len(stack) = 0 THEN [item |-> None, stack |-> stack]
    ELSE LET id   == stack[Len(stack)]
             rest == SubSeq(stack, 1, Len(stack) - 1)
             tn   == tree.nodes[id + 1]
         IN  IF is_some(tn.children)
             THEN [item  |-> Some(id),
                   stack |-> LeafIds_extend(rest, unwrap(tn.children))]
             ELSE [item |-> Some(id), stack |-> rest]

RECURSIVE LeafIds_next(_, _)
\* LeafIds::next: pop nodes until one has no child list (children is None)
\* and yield it; a node with a list is replaced by the ids of its list.
\* `nodes.get(child_id).unwrap()` panics on a child id that is not in the
\* store. Yields the item and the stack left.
LeafIds_next(tree, stack) ==
    IF Len(stack) = 0 THEN [item |-> None, stack |-> stack]
    ELSE LET id   == stack[Len(stack)]
             rest == SubSeq(stack, 1, Len(stack) - 1)
             tn   == tree.nodes[id + 1]
         IN  IF is_some(tn.children)
             THEN IF \E j \in 1..Len(unwrap(tn.children)) :
                        unwrap(tn.children)[j] >= Len(tree.nodes)
                  THEN [item |-> Panic("unwrap on None"), stack |-> rest]
                  ELSE LeafIds_next(tree, LeafIds_extend(rest, unwrap(tn.children)))
             ELSE [item |-> Some(id), stack |-> rest]

RECURSIVE LeafIds_collect(_, _)
\* Iterator::collect on LeafIds: next() until it yields None.
LeafIds_collect(tree, stack) ==
    LET step == LeafIds_next(tree, stack)
    IN  IF is_some(step.item)
        THEN <<unwrap(step.item)>> \o LeafIds_collect(tree, step.stack)
        ELSE <<>>

\* Tree::leaf_descendant_ids, consumed to the end.
leaf_descendant_ids(self, id) ==
    LET r == LeafIds_try_new(self, id)
    IN  IF is_ok(r) THEN Ok(LeafIds_collect(self, r[2])) ELSE r

\* AncestorIds::new: nothing is computed yet; parents has one None per node.
AncestorIds_new(tree, id) ==
    [found   |-> FALSE,
     parents |-> [i \in 1..Len(tree.nodes) |-> None],
     curr    |-> Some(id)]

RECURSIVE AncestorIds_links_swapped(_, _)
\* A plausible slip: the map is filled from child to parent the wrong way
\* round, parents[parent_id] = Some(child_id).
AncestorIds_links_swapped(tree, i) ==
    IF i > Len(tree.nodes) THEN <<>>
    ELSE LET tn == tree.nodes[i]
             cs == IF is_some(tn.children) THEN unwrap(tn.children) ELSE <<>>
         IN  [j \in 1..Len(cs) |-> <<cs[j], i - 1>>]
                 \o AncestorIds_links_swapped(tree, i + 1)

RECURSIVE AncestorIds_links(_, _)
\* The pairs <<parent_id, child_id>> in the order the two nested loops of
\* AncestorIds::next visit them, from the node at position i on.
AncestorIds_links(tree, i) ==
    IF i > Len(tree.nodes) THEN <<>>
    ELSE LET tn == tree.nodes[i]
             cs == IF is_some(tn.children) THEN unwrap(tn.children) ELSE <<>>
         IN  [j \in 1..Len(cs) |-> <<i - 1, cs[j]>>] \o AncestorIds_links(tree, i + 1)

RECURSIVE AncestorIds_fill(_, _)
\* self.parents[child_id] = Some(parent_id) for each pair in turn: a later
\* pair overwrites an earlier one.
AncestorIds_fill(parents, links) ==
    IF Len(links) = 0 THEN parents
    ELSE AncestorIds_fill([parents EXCEPT ![Head(links)[2] + 1] = Some(Head(links)[1])],
                          Tail(links))

\* A plausible slip: the current id is yielded before stepping to its parent.
AncestorIds_next_yields_self(tree, it) ==
    LET links   == AncestorIds_links(tree, 1)
        parents == IF it.found THEN it.parents
                   ELSE AncestorIds_fill(it.parents, links)
        curr    == IF is_some(it.curr) THEN parents[unwrap(it.curr) + 1] ELSE it.curr
    IN  [item |-> it.curr,
         it   |-> [found |-> TRUE, parents |-> parents, curr |-> curr]]

\* AncestorIds::next: the first call fills the parent map; then curr steps
\* to its parent and is yielded. Indexing parents with an id that is not an
\* index of the map panics (index out of bounds), in the fill and in the step.
AncestorIds_next(tree, it) ==
    LET links   == AncestorIds_links(tree, 1)
        bad     == ~it.found /\ \E k \in 1..Len(links) : links[k][2] >= Len(it.parents)
        parents == IF it.found \/ bad THEN it.parents
                   ELSE AncestorIds_fill(it.parents, links)
    IN  IF bad \/ (is_some(it.curr) /\ unwrap(it.curr) >= Len(parents))
        THEN [item |-> Panic("index out of bounds"), it |-> it]
        ELSE LET curr == IF is_some(it.curr)
                         THEN parents[unwrap(it.curr) + 1]
                         ELSE it.curr
             IN  [item |-> curr,
                  it   |-> [found |-> TRUE, parents |-> parents, curr |-> curr]]

RECURSIVE AncestorIds_collect(_, _)
\* Iterator::collect on AncestorIds: next() until it yields None; a panic
\* ends the thread. Yields the ids, or the panic.
AncestorIds_collect(tree, it) ==
    LET step == AncestorIds_next(tree, it)
    IN  IF is_panic(step.item) THEN step.item
        ELSE IF is_none(step.item) THEN Value(<<>>)
        ELSE LET more == AncestorIds_collect(tree, step.it)
             IN  IF is_panic(more) THEN more
                 ELSE Value(<<unwrap(step.item)>> \o more[2])

\* Tree::ancestor_ids, consumed to the end.
ancestor_ids(self, id) == AncestorIds_collect(self, AncestorIds_new(self, id))

\* Tree::ancestors, consumed to the end: Ancestors::next maps each id of the
\* inner AncestorIds through get_by_id.
ancestors(self, id) ==
    LET ids == ancestor_ids(self, id)
    IN  IF is_panic(ids) THEN ids
        ELSE Value([k \in 1..Len(ids[2]) |-> unwrap(get_by_id(self, ids[2][k]))])

\* The first item of Tree::ancestor_ids(id): one call of next().
ancestor_ids_first(self, id) == AncestorIds_next(self, AncestorIds_new(self, id)).item

\* The first item of Tree::ancestors(id).
ancestors_first(self, id) ==
    LET first == ancestor_ids_first(self, id)
    IN  IF is_some(first) THEN get_by_id(self, unwrap(first)) ELSE first

\* ------------------------------------------- serde (lib.rs, types.rs)

\* A JSON object is the sequence of its <<key, value>> members in the order
\* they are written; a JSON array is a sequence.

\* The value of the member `key` of a JSON object, if it has one.
member(obj, key) ==
    LET hits == {i \in 1..Len(obj) : obj[i][1] = key}
    IN  IF hits = {} THEN None
        ELSE Some(obj[CHOOSE i \in hits : \A j \in hits : i <= j][2])

\* derive(Serialize) for TreeNode<T>: `children` is written under the name
\* "desc" and skipped when Option::is_none says so.
TreeNode_serialize(tn) ==
    IF is_none(tn.children)
    THEN << <<"data", tn.data>> >>
    ELSE << <<"data", tn.data>>, <<"desc", unwrap(tn.children)>> >>

\* derive(Serialize) for Tree<T>: next_node_id is skipped.
serialize(self) ==
    << <<"nodes", [i \in 1..Len(self.nodes) |-> TreeNode_serialize(self.nodes[i])]>> >>

\* A plausible slip: a missing "desc" is read as an empty list.
TreeNode_deserialize_defaults_empty(obj) ==
    [data     |-> unwrap(member(obj, "data")),
     children |-> IF is_some(member(obj, "desc"))
                  THEN member(obj, "desc")
                  ELSE Some(<<>>)]

\* derive(Deserialize) for TreeNode<T>: an Option field is None when its
\* member is missing and Some(array) when it is there, empty or not.
TreeNode_deserialize(obj) ==
    [data     |-> unwrap(member(obj, "data")),
     children |-> member(obj, "desc")]

\* derive(Deserialize) for Tree<T>: the skipped next_node_id gets its
\* Default, 0.
deserialize(doc) ==
    LET nodes == unwrap(member(doc, "nodes"))
    IN  [nodes        |-> [i \in 1..Len(nodes) |-> TreeNode_deserialize(nodes[i])],
         next_node_id |-> 0]

\* ------------------------------------- actitopo (types.rs, error.rs, lib.rs)

\* A native object (hwloc2::Object) is a record of what the reducer reads of
\* it: object_type, os_index, logical_index, attributes (the cache attributes,
\* if it has them), children (the ordinary children, so arity() is their
\* number) and memory_children (memory_arity() is their number and
\* memory_first_child() the first of them).

\* error.rs
NoEquivalentElement == <<"NoEquivalentElement">>

EmptyTopology == <<"EmptyTopology">>

MemoryArity(n) == <<"MemoryArity", n>>

ImmuTree(source) == <<"ImmuTree", source>>

\* types.rs: Element and ProcessingElement
Machine == <<"Machine">>

Processing(kind, id) == <<"Processing", kind, id>>

Cache(level, logical_index, attributes) == <<"Cache", level, logical_index, attributes>>

\* CacheAttributes::default()
CacheAttributes_default == [size |-> 0, linesize |-> 0, associativity |-> 0]

\* impl TryFrom<&hwloc2::Object> for Element
Element_try_from(obj) ==
    LET attrs == IF is_some(obj.attributes) THEN unwrap(obj.attributes)
                 ELSE CacheAttributes_default
    IN  CASE obj.object_type = "Machine"  -> Ok(Machine)
          [] obj.object_type = "Package"  -> Ok(Processing("Package", obj.os_index))
          [] obj.object_type = "NumaNode" -> Ok(Processing("NumaNode", obj.os_index))
          [] obj.object_type = "Core"     -> Ok(Processing("Core", obj.os_index))
          [] obj.object_type = "PU"       -> Ok(Processing("Thread", obj.os_index))
          [] obj.object_type = "L1Cache"  -> Ok(Cache("L1", obj.logical_index, attrs))
          [] obj.object_type = "L2Cache"  -> Ok(Cache("L2", obj.logical_index, attrs))
          [] obj.object_type = "L3Cache"  -> Ok(Cache("L3", obj.logical_index, attrs))
          [] obj.object_type = "L4Cache"  -> Ok(Cache("L4", obj.logical_index, attrs))
          [] obj.object_type = "L5Cache"  -> Ok(Cache("L5", obj.logical_index, attrs))
          [] OTHER                        -> Err(NoEquivalentElement)

\* DetectionMode
Full == "Full"

IsolationBoundariesOnly == "IsolationBoundariesOnly"

\* The `?` after tree.insert(..): an immutree error leaves the function as
\* Error::ImmuTree, anything else goes on.
question_mark(out) ==
    [tree   |-> out.tree,
     result |-> IF is_err(out.result) THEN Err(ImmuTree(out.result[2]))
                ELSE out.result]

\* `tree.insert(element, mode)?`. The topologies at hand never exhaust the
\* NodeId range.
try_insert(tree, element, mode) ==
    question_mark(insert(tree, element, mode, IdBits, TRUE))

\* Some(tree.insert(..)?), lines 102-105: the id of the memory node.
memory_node(out) ==
    IF is_ok(out.result)
    THEN [tree |-> out.tree, result |-> Ok(Some(out.result[2]))]
    ELSE out

\* A plausible slip: with several memory children the first one is taken.
insert_memory_child_takes_first(tree, parent_node_id, parent_obj) ==
    IF Len(parent_obj.memory_children) = 0 THEN [tree |-> tree, result |-> Ok(None)]
    ELSE IF parent_obj.memory_children[1].object_type = "NumaNode"
    THEN memory_node(try_insert(tree,
                                Element_try_from(parent_obj.memory_children[1])[2],
                                Under(parent_node_id)))
    ELSE [tree |-> tree, result |-> Panic("unreachable")]

\* lib.rs 96-115 (the same code at 151-170): the memory child of parent_obj
\* is inserted under parent_node_id. Yields Ok(parent_mem_node_id), the
\* error, or the panic of unreachable!().
insert_memory_child(tree, parent_node_id, parent_obj) ==
    IF Len(parent_obj.memory_children) = 0 THEN [tree |-> tree, result |-> Ok(None)]
    ELSE IF Len(parent_obj.memory_children) = 1
    THEN IF parent_obj.memory_children[1].object_type = "NumaNode"
         THEN memory_node(try_insert(tree,
                                     Element_try_from(parent_obj.memory_children[1])[2],
                                     Under(parent_node_id)))
         ELSE [tree |-> tree, result |-> Panic("unreachable")]
    ELSE [tree |-> tree, result |-> Err(MemoryArity(Len(parent_obj.memory_children)))]

\* A plausible slip: the children are attached under parent_node_id though a
\* memory node was inserted.
effective_parent_ignores_memory(parent_mem_node_id, parent_node_id) == parent_node_id

\* parent_mem_node_id.unwrap_or(*parent_node_id)
effective_parent(parent_mem_node_id, parent_node_id) ==
    IF is_some(parent_mem_node_id) THEN unwrap(parent_mem_node_id)
    ELSE parent_node_id

RECURSIVE add_all_descendants(_, _, _)

\* A plausible slip: the recursion into a child that got a node goes on under
\* the same parent, not under the child's node.
add_all_inserted_flat(out, eff_id, child_obj) ==
    IF is_ok(out.result)
    THEN add_all_descendants(out.tree, eff_id, child_obj)
    ELSE out

\* add_all_descendants, lines 123-127: after `tree.insert(child_elem, ..)?`
\* the recursion goes into child_obj under the node just inserted.
add_all_inserted(out, eff_id, child_obj) ==
    IF is_ok(out.result)
    THEN add_all_descendants(out.tree, out.result[2], child_obj)
    ELSE out

\* A plausible slip: a child without an Element is skipped with all that is
\* below it.
add_all_child_skips_subtree(tree, eff_id, child_obj) ==
    IF is_ok(Element_try_from(child_obj))
    THEN add_all_inserted(try_insert(tree, Element_try_from(child_obj)[2], Under(eff_id)),
                          eff_id, child_obj)
    ELSE [tree |-> tree, result |-> Ok(<<>>)]

\* add_all_descendants, lines 121-137: one turn of the loop, for child_obj,
\* with eff_id the effective parent.
add_all_child(tree, eff_id, child_obj) ==
    IF is_ok(Element_try_from(child_obj))
    THEN add_all_inserted(try_insert(tree, Element_try_from(child_obj)[2], Under(eff_id)),
                          eff_id, child_obj)
    ELSE add_all_descendants(tree, eff_id, child_obj)

RECURSIVE add_all_children(_, _, _, _)
\* add_all_descendants, lines 118-138: the loop from child_idx on, `acc`
\* being the tree and the result so far; an error or a panic ends it.
add_all_children(acc, eff_id, parent_obj, child_idx) ==
    IF ~is_ok(acc.result) \/ child_idx >= Len(parent_obj.children) THEN acc
    ELSE add_all_children(add_all_child(acc.tree, eff_id, parent_obj.children[child_idx + 1]),
                          eff_id, parent_obj, child_idx + 1)

\* add_all_descendants, lines 117-140: what follows the memory child.
add_all_ordinary(mem, parent_node_id, parent_obj) ==
    IF is_ok(mem.result)
    THEN add_all_children([tree |-> mem.tree, result |-> Ok(<<>>)],
                          effective_parent(mem.result[2], parent_node_id), parent_obj, 0)
    ELSE mem

\* Topology::add_all_descendants
add_all_descendants(tree, parent_node_id, parent_obj) ==
    add_all_ordinary(insert_memory_child(tree, parent_node_id, parent_obj),
                     parent_node_id, parent_obj)

RECURSIVE add_isol_bound_descendants(_, _, _)

\* add_isol_bound_descendants, lines 178-182: after
\* `tree.insert(child_elem, ..)?` the recursion goes into child_obj under the
\* node just inserted.
add_isol_bound_inserted(out, child_obj) ==
    IF is_ok(out.result)
    THEN add_isol_bound_descendants(out.tree, out.result[2], child_obj)
    ELSE out

\* A plausible slip: the test of the parent's arity is left out.
add_isol_bound_child_always(tree, eff_id, parent_obj, child_obj) ==
    IF is_ok(Element_try_from(child_obj))
    THEN add_isol_bound_inserted(
             try_insert(tree, Element_try_from(child_obj)[2], Under(eff_id)), child_obj)
    ELSE add_isol_bound_descendants(tree, eff_id, child_obj)

\* A plausible slip: the arity tested is that of the child itself.
add_isol_bound_child_own_arity(tree, eff_id, parent_obj, child_obj) ==
    IF is_ok(Element_try_from(child_obj)) /\ Len(child_obj.children) > 1
    THEN add_isol_bound_inserted(
             try_insert(tree, Element_try_from(child_obj)[2], Under(eff_id)), child_obj)
    ELSE add_isol_bound_descendants(tree, eff_id, child_obj)

\* add_isol_bound_descendants, lines 176-200: one turn of the loop, for
\* child_obj, with eff_id the effective parent.
add_isol_bound_child(tree, eff_id, parent_obj, child_obj) ==
    IF is_ok(Element_try_from(child_obj)) /\ Len(parent_obj.children) > 1
    THEN add_isol_bound_inserted(
             try_insert(tree, Element_try_from(child_obj)[2], Under(eff_id)), child_obj)
    ELSE add_isol_bound_descendants(tree, eff_id, child_obj)

RECURSIVE add_isol_bound_children_backwards(_, _, _, _)
\* A plausible slip: the children are taken from the last to the first.
add_isol_bound_children_backwards(acc, eff_id, parent_obj, child_idx) ==
    IF ~is_ok(acc.result) \/ child_idx >= Len(parent_obj.children) THEN acc
    ELSE add_isol_bound_children_backwards(
             add_isol_bound_child(acc.tree, eff_id, parent_obj,
                                  parent_obj.children[Len(parent_obj.children) - child_idx]),
             eff_id, parent_obj, child_idx + 1)

RECURSIVE add_isol_bound_children(_, _, _, _)
\* add_isol_bound_descendants, lines 173-201: the loop from child_idx on.
add_isol_bound_children(acc, eff_id, parent_obj, child_idx) ==
    IF ~is_ok(acc.result) \/ child_idx >= Len(parent_obj.children) THEN acc
    ELSE add_isol_bound_children(
             add_isol_bound_child(acc.tree, eff_id, parent_obj,
                                  parent_obj.children[child_idx + 1]),
             eff_id, parent_obj, child_idx + 1)

\* add_isol_bound_descendants, lines 172-203: what follows the memory child.
add_isol_bound_ordinary(mem, parent_node_id, parent_obj) ==
    IF is_ok(mem.result)
    THEN add_isol_bound_children([tree |-> mem.tree, result |-> Ok(<<>>)],
                                 effective_parent(mem.result[2], parent_node_id),
                                 parent_obj, 0)
    ELSE mem

\* Topology::add_isol_bound_descendants
add_isol_bound_descendants(tree, parent_node_id, parent_obj) ==
    add_isol_bound_ordinary(insert_memory_child(tree, parent_node_id, parent_obj),
                            parent_node_id, parent_obj)

\* detect, lines 77-86: after the root was inserted, the descendants are
\* added by the function that the mode selects.
add_descendants_fn(mode, root_ins, root_obj) ==
    IF ~is_ok(root_ins.result) THEN root_ins
    ELSE IF mode = Full
    THEN add_all_descendants(root_ins.tree, root_ins.result[2], root_obj)
    ELSE add_isol_bound_descendants(root_ins.tree, root_ins.result[2], root_obj)

\* detect, line 86: Ok(Self { tree }), or what ended the reduction.
Topology_from(out) ==
    IF is_ok(out.result) THEN Ok([tree |-> out.tree]) ELSE out.result

\* Topology::detect, from the topology that hwloc2 built: Ok(Topology), the
\* error returned, or the panic.
detect(topo, mode) ==
    IF is_none(topo.root_object) THEN Err(EmptyTopology)
    ELSE IF is_err(Element_try_from(unwrap(topo.root_object)))
    THEN Element_try_from(unwrap(topo.root_object))
    ELSE Topology_from(
             add_descendants_fn(
                 mode,
                 try_insert(new, Element_try_from(unwrap(topo.root_object))[2], AsRoot),
                 unwrap(topo.root_object)))

\* ---------------------------------------------- actitopo (iter.rs, lib.rs)

\* matches!(e, pattern): an Element is a variant name followed by its
\* fields, and a pattern names the variant and its first fields (`_` and
\* `..` for the others).
matches(e, pattern) ==
    /\ Len(pattern) <= Len(e)
    /\ SubSeq(e, 1, Len(pattern)) = pattern

\* (self.match_fn)(e): a closure is the set of the patterns it accepts.
call_match_fn(match_fn, e) == \E pattern \in match_fn : matches(e, pattern)

\* NodeIds::new
NodeIds_new(match_fn) == [match_fn |-> match_fn, curr |-> 0]

RECURSIVE NodeIds_next_returns_curr(_, _)
\* A plausible slip: the id is returned after it was advanced.
NodeIds_next_returns_curr(self_tree, it) ==
    IF is_some(get_by_id(self_tree, it.curr))
    THEN IF call_match_fn(it.match_fn, unwrap(get_by_id(self_tree, it.curr)))
         THEN [iter |-> [it EXCEPT !.curr = it.curr + 1], item |-> Some(it.curr + 1)]
         ELSE NodeIds_next_returns_curr(self_tree, [it EXCEPT !.curr = it.curr + 1])
    ELSE [iter |-> it, item |-> None]

RECURSIVE NodeIds_next(_, _)
\* NodeIds::next: advance over the ids that are in the tree until an element
\* matches; yields the iterator left and the item.
NodeIds_next(self_tree, it) ==
    IF is_some(get_by_id(self_tree, it.curr))
    THEN IF call_match_fn(it.match_fn, unwrap(get_by_id(self_tree, it.curr)))
         THEN [iter |-> [it EXCEPT !.curr = it.curr + 1], item |-> Some(it.curr)]
         ELSE NodeIds_next(self_tree, [it EXCEPT !.curr = it.curr + 1])
    ELSE [iter |-> it, item |-> None]

RECURSIVE NodeIds_collect(_, _)
\* Iterator::collect on NodeIds: next() until it yields None.
NodeIds_collect(self_tree, it) ==
    IF is_some(NodeIds_next(self_tree, it).item)
    THEN <<unwrap(NodeIds_next(self_tree, it).item)>>
             \o NodeIds_collect(self_tree, NodeIds_next(self_tree, it).iter)
    ELSE <<>>

\* Topology::filter_elements, consumed to the end.
filter_elements(self_tree, match_fn) == NodeIds_collect(self_tree, NodeIds_new(match_fn))

\* Topology::processing_element_ids
processing_element_ids(self_tree) == filter_elements(self_tree, {<<"Processing">>})

\* Topology::package_ids
package_ids(self_tree) == filter_elements(self_tree, {<<"Processing", "Package">>})

\* Topology::numa_node_ids
numa_node_ids(self_tree) == filter_elements(self_tree, {<<"Processing", "NumaNode">>})

\* Topology::core_ids
core_ids(self_tree) == filter_elements(self_tree, {<<"Processing", "Core">>})

\* Topology::thread_ids
thread_ids(self_tree) == filter_elements(self_tree, {<<"Processing", "Thread">>})

\* Topology::cache_ids
cache_ids(self_tree) == filter_elements(self_tree, {<<"Cache">>})

\* Topology::l1_cache_ids
l1_cache_ids(self_tree) == filter_elements(self_tree, {<<"Cache", "L1">>})

\* Topology::l2_cache_ids
l2_cache_ids(self_tree) == filter_elements(self_tree, {<<"Cache", "L2">>})

\* Topology::l3_cache_ids
l3_cache_ids(self_tree) == filter_elements(self_tree, {<<"Cache", "L3">>})

\* Topology::l4_cache_ids
l4_cache_ids(self_tree) == filter_elements(self_tree, {<<"Cache", "L4">>})

\* Topology::l5_cache_ids
l5_cache_ids(self_tree) == filter_elements(self_tree, {<<"Cache", "L5">>})

\* ------------------------------------------------------------------ state

VARIABLES
    tree,   \* the Tree<T> under construction
    calls,  \* history: the successful inserts, <<element, mode, id returned>>
    last,   \* the last call: its name, arguments, result and the store before
    topo    \* the hwloc2::Topology that detect reads

vars == <<tree, calls, last, topo>>

Call(op, arg, result, before) ==
    [op |-> op, arg |-> arg, result |-> result, before |-> before]

\* A hwloc2::Topology without a root object.
NoObjects == [root_object |-> None]

Init ==
    /\ tree = new
    /\ calls = <<>>
    /\ last = Call("new", <<>>, Value(new), new)
    /\ topo = NoObjects

\* A call of tree.insert(element, mode) on a build with or without overflow
\* checks, for a NodeId of `bits` bits and a store of at most `cap` nodes.
InsertCall(bits, cap) ==
    \E element \in Data, mode \in {AsRoot} \cup {Under(p) : p \in Ids},
       overflow_checks \in BOOLEAN :
        LET out == insert(tree, element, mode, bits, overflow_checks)
        IN  /\ ~is_panic(last.result)
            /\ Len(out.tree.nodes) <= cap
            /\ tree' = out.tree
            /\ calls' = IF is_ok(out.result)
                        THEN Append(calls, <<element, mode, out.result[2]>>)
                        ELSE calls
            /\ last' = Call("insert", <<element, mode>>, out.result, tree)
            /\ UNCHANGED topo

Insert == InsertCall(IdBits, MaxNodes)

InsertWrap == InsertCall(WrapBits, MaxNodesWrap)

\* A read-only call: the store and the history stay as they are.
Query(op, arg, result) ==
    /\ ~is_panic(last.result)
    /\ last' = Call(op, arg, result, tree)
    /\ UNCHANGED <<tree, calls, topo>>

TreeLen == Query("len", <<>>, Value(len(tree)))

IsEmpty == Query("is_empty", <<>>, Value(is_empty(tree)))

GetById == \E id \in Ids : Query("get_by_id", <<id>>, get_by_id(tree, id))

ParentId == \E id \in Ids : Query("parent_id", <<id>>, parent_id(tree, id))

ImmediateDescendantIds ==
    \E id \in Ids :
        Query("immediate_descendant_ids", <<id>>, immediate_descendant_ids(tree, id))

LeafDescendantIds ==
    \E id \in Ids :
        Query("leaf_descendant_ids", <<id>>, leaf_descendant_ids(tree, id))

\* The documents that describe the store the way its own serialization
\* does, except that nodes written without "desc" may carry "desc": [].
Documents(t) ==
    LET doc   == unwrap(member(serialize(t), "nodes"))
        bare  == {i \in 1..Len(doc) : is_none(member(doc[i], "desc"))}
    IN  {<< <<"nodes", [i \in 1..Len(doc) |->
                          IF i \in S THEN doc[i] \o << <<"desc", <<>>>> >>
                          ELSE doc[i]]>> >> : S \in SUBSET bare}

\* serde_json::from_str::<Tree<T>>(document): the store is replaced by the
\* one read from a document.
Deserialize ==
    \E doc \in Documents(tree) :
        /\ ~is_panic(last.result)
        /\ tree' = deserialize(doc)
        /\ last' = Call("deserialize", <<doc>>, Ok(deserialize(doc)), tree)
        /\ UNCHANGED <<calls, topo>>

\* serde_json::to_string(&tree)
Serialize == Query("serialize", <<>>, Ok(serialize(tree)))

AncestorIds == \E id \in Ids : Query("ancestor_ids", <<id>>, ancestor_ids(tree, id))

\* serde_json::from_str(&serde_json::to_string(&tree)): the store is written
\* and the document read back into a second store.
RoundTrip == Query("round_trip", <<>>, Ok(deserialize(serialize(tree))))

InsertDe == InsertCall(IdBits, MaxNodesDe)

Next ==
    \/ Insert
    \/ TreeLen
    \/ IsEmpty
    \/ GetById
    \/ ParentId
    \/ ImmediateDescendantIds
    \/ LeafDescendantIds
    \/ AncestorIds
    \/ RoundTrip

Spec == Init /\ [][Next]_vars

NextDe ==
    \/ InsertDe
    \/ Deserialize
    \/ Serialize
    \/ ParentId
    \/ ImmediateDescendantIds
    \/ LeafDescendantIds
    \/ AncestorIds

\* Stores that are built by inserts, written and read back, and extended.
SpecDe == Init /\ [][NextDe]_vars

NextWrap == InsertWrap

SpecWrap == Init /\ [][NextWrap]_vars

\* hwloc nests the objects that detect keeps by containment: packages in
\* the machine, dies or cores in a package, cores in a die, PUs in a core.
\* Die is kept by the filter and has no Element.
ChildTypes ==
    [Machine |-> {"Package"}, Package |-> {"Die", "Core"}, Die |-> {"Core"},
     Core |-> {"PU"}, PU |-> {}]

\* Memory children hang off the objects that contain cores, never off a
\* Core or a PU. One arity for each arm of the match on memory_arity(); the
\* last arm is taken with 2 on a Machine or a Package and with 3 on a Die,
\* so that the count in the error tells whose it is.
MemoryArities(type) ==
    IF type \in {"Machine", "Package"} THEN {0, 1, 2}
    ELSE IF type = "Die" THEN {0, 1, 3}
    ELSE {0}

RECURSIVE PathToRoot(_, _)
\* The object i of a hierarchy and the objects above it.
PathToRoot(par, i) == IF i = 0 THEN {} ELSE {i} \cup PathToRoot(par, par[i])

\* A hierarchy lists its objects depth first: par[i] is the object above
\* i (0 for the root) and type[i] its type. The next object goes under the
\* last one or under one of those above it.
Extensions(h) ==
    UNION {{[par |-> Append(h.par, a), type |-> Append(h.type, t)] :
               t \in ChildTypes[h.type[a]]} :
           a \in PathToRoot(h.par, Len(h.par))}

RECURSIVE Hierarchies(_)
\* The hierarchies of exactly n objects under a Machine root.
Hierarchies(n) ==
    IF n = 1 THEN {[par |-> <<0>>, type |-> <<"Machine">>]}
    ELSE UNION {Extensions(h) : h \in Hierarchies(n - 1)}

\* The j-th memory child of object i: a NumaNode with an index of its own.
MemoryChild(i, j) ==
    [object_type |-> "NumaNode", os_index |-> i + (j - 1) * MaxObjs,
     logical_index |-> i + (j - 1) * MaxObjs, attributes |-> None,
     children |-> <<>>, memory_children |-> <<>>]

RECURSIVE Ascending(_)
\* The numbers of a set in ascending order.
Ascending(S) ==
    IF S = {} THEN <<>>
    ELSE LET m == CHOOSE x \in S : \A y \in S : x <= y
         IN  <<m>> \o Ascending(S \ {m})

RECURSIVE Object(_, _, _)
\* The hwloc2::Object for object i of hierarchy h with memory arities mem.
\* Every object has an os_index of its own, so that its Element tells which
\* object a node stands for.
Object(h, mem, i) ==
    LET below == Ascending({j \in 1..Len(h.par) : h.par[j] = i})
    IN  [object_type     |-> h.type[i],
         os_index        |-> i,
         logical_index   |-> i,
         attributes      |-> None,
         children        |-> [k \in 1..Len(below) |-> Object(h, mem, below[k])],
         memory_children |-> [j \in 1..mem[i] |-> MemoryChild(i, j)]]

\* The memory arities a hierarchy may come with.
MemoryChoices(h) ==
    {mem \in [1..Len(h.par) -> {0, 1, 2, 3}] :
        \A i \in 1..Len(h.par) : mem[i] \in MemoryArities(h.type[i])}

\* hwloc2::Topology::builder()...build(): the topology handed to detect has
\* no object, or a hierarchy of at most MaxObjs objects and their memory
\* children.
InitTopo ==
    /\ \/ topo = NoObjects
       \/ \E n \in 1..MaxObjs :
             \E h \in Hierarchies(n) :
                \E mem \in MemoryChoices(h) :
                   topo = [root_object |-> Some(Object(h, mem, 1))]
    /\ tree = new
    /\ calls = <<>>
    /\ last = Call("new", <<>>, Value(new), new)

\* Topology::detect(mode); `tree` is the tree of the Topology returned last.
Detect ==
    \E mode \in {Full, IsolationBoundariesOnly} :
        LET out == detect(topo, mode)
        IN  /\ ~is_panic(last.result)
            /\ tree' = IF is_ok(out) THEN out[2].tree ELSE tree
            /\ last' = Call("detect", <<mode>>, out, tree)
            /\ UNCHANGED <<calls, topo>>

NextTopo == Detect

SpecTopo == InitTopo /\ [][NextTopo]_vars

\* topo.root_object() is an Option<&Object> of any object type: detect reads
\* the type of the object it is handed (lib.rs 76-77). Here the topology
\* hands back, as its root, any object of a hierarchy.
InitAnyRoot ==
    /\ \/ topo = NoObjects
       \/ \E n \in 1..MaxObjs :
             \E h \in Hierarchies(n) :
                \E mem \in MemoryChoices(h) :
                   \E i \in 1..n :
                      topo = [root_object |-> Some(Object(h, mem, i))]
    /\ tree = new
    /\ calls = <<>>
    /\ last = Call("new", <<>>, Value(new), new)

SpecAnyRoot == InitAnyRoot /\ [][NextTopo]_vars

\* The elements of the Topologies that are read from documents: one of each
\* class, with caches of two levels.
Elements ==
    {Machine, Processing("Package", 0), Processing("NumaNode", 0),
     Processing("Core", 0), Processing("Thread", 0),
     Cache("L1", 0, CacheAttributes_default),
     Cache("L3", 0, [size |-> 1, linesize |-> 1, associativity |-> 1])}

RECURSIVE Inserted(_, _, _)
\* The tree of the first k of these elements, each inserted under its parent.
Inserted(elements, parents, k) ==
    IF k = 0 THEN new
    ELSE insert(Inserted(elements, parents, k - 1), elements[k],
                IF k = 1 THEN AsRoot ELSE Under(parents[k]), IdBits, TRUE).tree

\* serde_json::from_str::<Topology>(document): Topology is a transparent
\* wrapper of its tree, so it is read from the document of any tree of
\* Elements, here one of at most MaxElems, each under the one before (the
\* queries do not read the child lists).
InitFilter ==
    /\ \E n \in 0..MaxElems :
          \E elements \in [1..n -> Elements] :
             tree = deserialize(serialize(
                        Inserted(elements, [k \in 1..n |-> IF k = 1 THEN 0 ELSE k - 2], n)))
    /\ calls = <<>>
    /\ last = Call("new", <<>>, Value(new), new)
    /\ topo = NoObjects

\* The closures handed to filter_elements: those of the class queries, the
\* one that accepts nothing, and two that accept two given elements.
MatchFns ==
    {{<<"Processing">>}, {},
     {Machine, Cache("L3", 0, [size |-> 1, linesize |-> 1, associativity |-> 1])},
     {Processing("Package", 0), Processing("Thread", 0)}}

\* Topology::filter_elements(match_fn).collect()
FilterElements ==
    \E match_fn \in MatchFns :
        Query("filter_elements", <<match_fn>>, Value(filter_elements(tree, match_fn)))

\* The node-class queries of Topology, by name.
ClassIds(self_tree) ==
    [processing_element_ids |-> processing_element_ids(self_tree),
     package_ids   |-> package_ids(self_tree),
     numa_node_ids |-> numa_node_ids(self_tree),
     core_ids      |-> core_ids(self_tree),
     thread_ids    |-> thread_ids(self_tree),
     cache_ids     |-> cache_ids(self_tree),
     l1_cache_ids  |-> l1_cache_ids(self_tree),
     l2_cache_ids  |-> l2_cache_ids(self_tree),
     l3_cache_ids  |-> l3_cache_ids(self_tree),
     l4_cache_ids  |-> l4_cache_ids(self_tree),
     l5_cache_ids  |-> l5_cache_ids(self_tree)]

\* One of the node-class queries, collected.
ClassQuery ==
    \E name \in DOMAIN ClassIds(tree) : Query(name, <<>>, Value(ClassIds(tree)[name]))

NextFilter ==
    \/ FilterElements
    \/ ClassQuery

\* Topologies read from documents and queried by class.
SpecFilter == InitFilter /\ [][NextFilter]_vars

\* ----------------------------------------------------------------- claims

\* The number of inserts that had succeeded before the last call was made.
PriorOk ==
    IF last.op = "insert" /\ is_ok(last.result) THEN Len(calls) - 1 ELSE Len(calls)

\* The last call was insert(_, mode) with this kind of mode.
LastInsert(kind) == last.op = "insert" /\ last.arg[2][1] = kind

\* C1: on a store created empty the k-th successful insert returned NodeId
\* k-1, whatever failed inserts came in between; and in every state reached
\* (also right after a failed insert) the next insert that succeeds returns
\* the number of successful inserts so far.
C1_IdsAreDense ==
    /\ \A k \in 1..Len(calls) : calls[k][3] = k - 1
    /\ \A element \in Data :
          LET mode == IF Len(calls) = 0 THEN AsRoot ELSE Under(0)
          IN  insert(tree, element, mode, IdBits, FALSE).result = Ok(Len(calls))

\* C1 witness: an insert has just failed on a store that holds two nodes.
C1_Witness ==
    /\ last.op = "insert"
    /\ is_err(last.result)
    /\ Len(calls) = 2
    /\ calls[2][3] = 1

\* C2: insert(_, AsRoot) returns NodeId 0 when no insert has succeeded yet
\* and fails with RootReplacement otherwise.
C2_RootOnlyFirst ==
    LastInsert("AsRoot") =>
        IF PriorOk = 0
        THEN last.result = Ok(0)
        ELSE last.result = Err(RootReplacement)

\* C2 witness: AsRoot was refused on a store built by two successful inserts.
C2_Witness ==
    /\ LastInsert("AsRoot")
    /\ PriorOk = 2
    /\ last.result = Err(RootReplacement)

\* C3: insert(_, Under(p)) fails with NonExistentParent(p) when p is at least
\* the number of nodes of the store, and succeeds when p is smaller.
C3_ParentMustExist ==
    LastInsert("Under") =>
        LET p == last.arg[2][2]
        IN  IF p >= len(last.before)
            THEN last.result = Err(NonExistentParent(p))
            ELSE is_ok(last.result)

\* C3 witness: Under(p) was refused for p equal to the number of nodes of a
\* non-empty store (the smallest id that does not exist).
C3_Witness ==
    /\ LastInsert("Under")
    /\ len(last.before) = 2
    /\ last.arg[2][2] = 2
    /\ last.result = Err(NonExistentParent(2))

\* The child list of the node at position i, empty when the node has none.
ChildList(t, i) ==
    IF is_some(t.nodes[i].children) THEN unwrap(t.nodes[i].children) ELSE <<>>

\* The places <<i, j>> of the child lists of t that hold id: the j-th entry
\* of the list of the node at position i.
Places(t, id) ==
    {s \in (1..Len(t.nodes)) \X (1..Len(t.nodes)) :
        /\ s[2] <= Len(ChildList(t, s[1]))
        /\ ChildList(t, s[1])[s[2]] = id}

\* C4: every node inserted via Under(p) has parent_id Some(p) and occupies
\* exactly one place over all child lists, in the list of p; parent_id is
\* None for the node inserted AsRoot and for every id that is not in the
\* store.
C4_ParentIsUnique ==
    /\ \A k \in 1..Len(calls) :
          LET mode == calls[k][2]
              n    == calls[k][3]
          IN  IF mode[1] = "Under"
              THEN /\ parent_id(tree, n) = Some(mode[2])
                   /\ Cardinality(Places(tree, n)) = 1
                   /\ \A s \in Places(tree, n) : s[1] = mode[2] + 1
              ELSE parent_id(tree, n) = None
    /\ \A id \in Ids : id >= len(tree) => parent_id(tree, id) = None

\* C4 witness: parent_id was asked for a node that was inserted under a node
\* other than the root, and answered with that node.
C4_Witness ==
    /\ last.op = "parent_id"
    /\ last.result = Some(1)
    /\ \E k \in 1..Len(calls) : calls[k][2] = Under(1) /\ <<calls[k][3]>> = last.arg

\* C5: at most one node has no parent, and in a non-empty store it is NodeId
\* 0: a node of the store has no parent exactly when its id is 0.
C5_SingleRoot ==
    \A id \in 0..(len(tree) - 1) : is_none(parent_id(tree, id)) <=> id = 0

\* C5 witness: an insert under a node that had no child list yet succeeded on
\* a store of at least two nodes.
C5_Witness ==
    /\ LastInsert("Under")
    /\ is_ok(last.result)
    /\ len(last.before) >= 2
    /\ is_none(last.before.nodes[last.arg[2][2] + 1].children)

RECURSIVE ClimbsToRoot(_, _, _)
\* Following parent_id from id reaches NodeId 0 within `fuel` steps.
ClimbsToRoot(t, id, fuel) ==
    IF id = 0 THEN TRUE
    ELSE IF fuel = 0 THEN FALSE
    ELSE LET p == parent_id(t, id)
         IN  is_some(p) /\ ClimbsToRoot(t, unwrap(p), fuel - 1)

\* C6: every id c in the child list of node p satisfies p < c < len, and
\* following parents from any node of the store reaches NodeId 0.
C6_ChildrenAreLater ==
    /\ \A i \in 1..Len(tree.nodes) :
          \A j \in 1..Len(ChildList(tree, i)) :
              LET c == ChildList(tree, i)[j]
              IN  i - 1 < c /\ c < len(tree)
    /\ \A id \in 0..(len(tree) - 1) : ClimbsToRoot(tree, id, len(tree))

\* C6 witness: the store holds a node whose parent is not the root.
C6_Witness ==
    /\ last.op = "insert"
    /\ \E id \in 0..(len(tree) - 1) :
          /\ is_some(parent_id(tree, id))
          /\ unwrap(parent_id(tree, id)) > 0

\* C7: a successful insert appends one childless node holding the payload at
\* index len and, for Under(p), appends that index to the child list of p;
\* every other payload and child list, and what p's list held, are as before.
\* Every other call (a failed insert, a query) leaves the nodes as they were.
C7_InsertOnlyAppends ==
    LET b == last.before.nodes
        a == tree.nodes
    IN  IF last.op = "insert" /\ is_ok(last.result)
        THEN /\ Len(a) = Len(b) + 1
             /\ a[Len(a)] = [data |-> last.arg[1], children |-> None]
             /\ \A i \in 1..Len(b) :
                   /\ a[i].data = b[i].data
                   /\ IF last.arg[2] = Under(i - 1)
                      THEN a[i].children =
                               Some(Append(ChildList(last.before, i), Len(b)))
                      ELSE a[i].children = b[i].children
        ELSE a = b

\* C7 witness: an insert succeeded under a node that already had a child.
C7_Witness ==
    /\ LastInsert("Under")
    /\ is_ok(last.result)
    /\ Len(ChildList(last.before, last.arg[2][2] + 1)) >= 1

\* C8: the store bounds the number of nodes to the NodeId width: once all
\* 2^WrapBits ids are given out a further insert does not succeed, no id is
\* returned by two inserts, and at most one insert AsRoot ever succeeds.
C8_FailsRatherThanWraps ==
    /\ (last.op = "insert" /\ len(last.before) >= 2 ^ WrapBits)
          => ~is_ok(last.result)
    /\ \A j, k \in 1..Len(calls) : j # k => calls[j][3] # calls[k][3]
    /\ Cardinality({k \in 1..Len(calls) : calls[k][2] = AsRoot}) <= 1

\* C9: get_by_id(id) yields the payload given to the insert that returned
\* id, something for every id < len and None for every id >= len; len is
\* the number of successful inserts and is_empty holds iff there were none.
C9_GetReturnsPayload ==
    /\ \A k \in 1..Len(calls) : get_by_id(tree, calls[k][3]) = Some(calls[k][1])
    /\ \A id \in Ids :
          IF id < len(tree)
          THEN is_some(get_by_id(tree, id))
          ELSE get_by_id(tree, id) = None
    /\ len(tree) = Len(calls)
    /\ is_empty(tree) <=> Len(calls) = 0

\* C9 witness: get_by_id(2) answered with the payload of the third insert,
\* which differs from the payloads of the first two.
C9_Witness ==
    /\ last.op = "get_by_id"
    /\ last.arg = <<2>>
    /\ last.result = Some("b")
    /\ Len(calls) >= 3
    /\ calls[1][1] = "a"
    /\ calls[2][1] = "a"
    /\ calls[3][1] = "b"

\* The ids returned by the successful inserts Under(id), in call order.
InsertedUnder(id) ==
    LET IsUnder(c) == c[2] = Under(id)
        hits == SelectSeq(calls, IsUnder)
    IN  [k \in 1..Len(hits) |-> hits[k][3]]

\* C10: for an id of the store immediate_descendant_ids yields exactly the
\* ids inserted Under(id), in insertion order, which is increasing NodeId
\* order (an empty sequence when there is none); for an id that is not in
\* the store it fails with InvalidNodeId(id).
C10_ChildIdsInInsertionOrder ==
    \A id \in Ids :
        IF id < len(tree)
        THEN /\ immediate_descendant_ids(tree, id) = Ok(InsertedUnder(id))
             /\ \A j, k \in 1..Len(InsertedUnder(id)) :
                   j < k => InsertedUnder(id)[j] < InsertedUnder(id)[k]
        ELSE immediate_descendant_ids(tree, id) = Err(InvalidNodeId(id))

\* C10 witness: the children of the root were asked for on a store where the
\* root got a child, then that child got one, then the root got another.
C10_Witness ==
    /\ last.op = "immediate_descendant_ids"
    /\ last.arg = <<0>>
    /\ last.result = Ok(<<1, 3>>)

RECURSIVE IsSelfOrDescendant(_, _, _, _)
\* y is a, or following parent_id from y reaches a within `fuel` steps.
IsSelfOrDescendant(t, a, y, fuel) ==
    IF y = a THEN TRUE
    ELSE IF fuel = 0 THEN FALSE
    ELSE LET p == parent_id(t, y)
         IN  is_some(p) /\ IsSelfOrDescendant(t, a, unwrap(p), fuel - 1)

\* C11: for an id of the store every id yielded by leaf_descendant_ids(id)
\* is id or a descendant of id and has no children; when id has no children
\* exactly <<id>> is yielded; for an id that is not in the store the call
\* fails with InvalidNodeId(id).
C11_LeavesAreContained ==
    \A id \in Ids :
        LET r == leaf_descendant_ids(tree, id)
        IN  IF id < len(tree)
            THEN /\ is_ok(r)
                 /\ \A k \in 1..Len(r[2]) :
                       /\ r[2][k] < len(tree)
                       /\ IsSelfOrDescendant(tree, id, r[2][k], len(tree))
                       /\ ChildList(tree, r[2][k] + 1) = <<>>
                 /\ ChildList(tree, id + 1) = <<>> => r = Ok(<<id>>)
            ELSE r = Err(InvalidNodeId(id))

\* C11 witness: the leaves under the root were asked for on the store
\* 0 -> {1 -> {2}, 3}, and they are 3 and 2.
C11_Witness ==
    /\ last.op = "leaf_descendant_ids"
    /\ last.arg = <<0>>
    /\ last.result = Ok(<<3, 2>>)

\* The store holds a node whose child list is present but empty.
HasEmptyList(t, id) == id < len(t) /\ t.nodes[id + 1].children = Some(<<>>)

\* C12: a node whose child list is present but empty is read like a node
\* without a list: immediate_descendant_ids yields nothing for it, and
\* leaf_descendant_ids yields exactly it, and yields it among the leaves of
\* every node it is, or descends from.
C12_EmptyListIsLeaf ==
    \A id \in Ids :
        HasEmptyList(tree, id) =>
            /\ immediate_descendant_ids(tree, id) = Ok(<<>>)
            /\ leaf_descendant_ids(tree, id) = Ok(<<id>>)
            /\ \A a \in 0..(len(tree) - 1) :
                  IsSelfOrDescendant(tree, a, id, len(tree))
                      => contains(leaf_descendant_ids(tree, a)[2], id)

\* C13: the serialization of a store has no "desc" member on a node without
\* children and never an empty array: "desc" is written exactly for the
\* nodes that have at least one child, at array index = NodeId.
C13_NeverWritesEmptyDesc ==
    LET doc == unwrap(member(serialize(tree), "nodes"))
    IN  /\ Len(doc) = len(tree)
        /\ \A i \in 1..Len(doc) :
              /\ member(doc[i], "data") = Some(tree.nodes[i].data)
              /\ IF ChildList(tree, i) = <<>>
                 THEN is_none(member(doc[i], "desc"))
                 ELSE member(doc[i], "desc") = Some(ChildList(tree, i))

RECURSIVE InsertedChain(_, _)
\* The strict ancestors of the node that the k-th successful insert created,
\* nearest first, as the inserts named them: the parent given to that
\* insert, then the parent given to the insert that created the parent, ...
\* (ids are handed out in call order, so the insert that created p is p + 1).
InsertedChain(k, fuel) ==
    IF fuel = 0 \/ calls[k][2][1] # "Under" THEN <<>>
    ELSE <<calls[k][2][2]>> \o InsertedChain(calls[k][2][2] + 1, fuel - 1)

\* C14: for an id of the store ancestor_ids(id) yields exactly the strict
\* ancestors of id, nearest first, the last being NodeId 0, and nothing for
\* the root; their number is the depth of id.
C14_AncestorsNearestFirst ==
    \A k \in 1..Len(calls) :
        LET id    == calls[k][3]
            chain == InsertedChain(k, Len(calls))
        IN  /\ ancestor_ids(tree, id) = Value(chain)
            /\ id # 0 => chain[Len(chain)] = 0
            /\ id = 0 => chain = <<>>
            /\ last.op = "ancestor_ids" /\ last.arg = <<id>>
                  => last.result = Value(chain)

\* C14 witness: the ancestors of a grandchild of the root were asked for.
C14_Witness ==
    /\ last.op = "ancestor_ids"
    /\ last.arg = <<2>>
    /\ last.result = Value(<<1, 0>>)

\* C15: for an id that is not in the store ancestor_ids and ancestors yield
\* the empty sequence; consuming them does not panic.
C15_AbsentIdYieldsNothing ==
    (last.op = "ancestor_ids" /\ last.arg[1] >= len(last.before)) =>
        /\ last.result = Value(<<>>)
        /\ ancestors(last.before, last.arg[1]) = Value(<<>>)

\* Two stores answer len and the three id traversals alike, for every id of
\* the first, and are written alike.
SameAnswers(t, t2) ==
    /\ len(t2) = len(t)
    /\ \A id \in 0..(len(t) - 1) :
          /\ immediate_descendant_ids(t2, id) = immediate_descendant_ids(t, id)
          /\ leaf_descendant_ids(t2, id) = leaf_descendant_ids(t, id)
          /\ ancestor_ids(t2, id) = ancestor_ids(t, id)
    /\ serialize(t2) = serialize(t)

\* C16: for a store built by inserts, deserialize(serialize(store)) has the
\* same len, gives for every valid id the same immediate_descendant_ids,
\* leaf_descendant_ids and ancestor_ids as the store, and is serialized to
\* the same document.
C16_RoundTrip ==
    /\ SameAnswers(tree, deserialize(serialize(tree)))
    /\ last.op = "round_trip" =>
          /\ is_ok(last.result)
          /\ SameAnswers(last.before, last.result[2])

\* A store with a grandchild and a second child of the root was written and
\* read back.
C16_Witness ==
    /\ last.op = "round_trip"
    /\ len(last.before) = 4
    /\ ancestor_ids(last.result[2], 2) = Value(<<1, 0>>)
    /\ leaf_descendant_ids(last.result[2], 0) = Ok(<<3, 2>>)

\* The last call was the first insert attempted on a store that was read
\* from a document and holds at least one node: its counter is still 0.
FirstInsertAfterDeserialize ==
    /\ last.op = "insert"
    /\ last.before.next_node_id = 0
    /\ len(last.before) >= 1

\* C17: the first insert attempted on a deserialized store of n >= 1 nodes
\* sees the counter n: Under(p) with p < n returns Ok(n) and leaves the
\* counter at n + 1, Under(p) with p >= n returns NonExistentParent(p), and
\* AsRoot returns RootReplacement, both leaving the counter at n.
C17_CounterRecomputed ==
    FirstInsertAfterDeserialize =>
        LET n    == len(last.before)
            mode == last.arg[2]
        IN  /\ (mode[1] = "Under" /\ mode[2] < n) =>
                  /\ last.result = Ok(n)
                  /\ tree.next_node_id = n + 1
                  /\ len(tree) = n + 1
            /\ (mode[1] = "Under" /\ mode[2] >= n) =>
                  /\ last.result = Err(NonExistentParent(mode[2]))
                  /\ tree.next_node_id = n
                  /\ tree.nodes = last.before.nodes
            /\ mode[1] = "AsRoot" =>
                  /\ last.result = Err(RootReplacement)
                  /\ tree.next_node_id = n
                  /\ tree.nodes = last.before.nodes

\* A store of two nodes was read from a document and a third node was
\* inserted under its root.
C17_Witness ==
    /\ FirstInsertAfterDeserialize
    /\ len(last.before) = 2
    /\ last.arg[2] = Under(0)
    /\ last.result = Ok(2)

\* C18: for every id of the tree, the first item of ancestor_ids(id) is
\* parent_id(id) and the first item of ancestors(id) is parent(id); for the
\* root all four are None. A call of ancestor_ids on an id of the tree
\* starts with the parent that the linear scan finds, and yields nothing
\* when the scan finds none.
C18_FirstAncestorIsParent ==
    /\ \A id \in 0..(len(tree) - 1) :
          /\ ancestor_ids_first(tree, id) = parent_id(tree, id)
          /\ ancestors_first(tree, id) = parent(tree, id)
          /\ id = 0 => /\ ancestor_ids_first(tree, id) = None
                       /\ ancestors_first(tree, id) = None
    /\ (last.op = "ancestor_ids" /\ last.arg[1] < len(last.before)) =>
          LET p == parent_id(last.before, last.arg[1])
          IN  /\ ~is_panic(last.result)
              /\ IF is_some(p)
                 THEN /\ Len(last.result[2]) >= 1
                      /\ last.result[2][1] = unwrap(p)
                 ELSE last.result = Value(<<>>)

\* ancestor_ids was called for a grandchild of the root on a store read
\* from a document, and started with the grandchild's parent.
C18_Witness ==
    /\ last.op = "ancestor_ids"
    /\ last.arg = <<2>>
    /\ last.before.next_node_id = 0
    /\ len(last.before) = 3
    /\ parent_id(last.before, 2) = Some(1)
    /\ last.result = Value(<<1, 0>>)

RECURSIVE Below(_)
\* The native objects below obj along ordinary-child edges.
Below(obj) ==
    UNION {{obj.children[k]} \cup Below(obj.children[k]) : k \in 1..Len(obj.children)}

\* The object types that have an Element.
HasElement(obj) ==
    obj.object_type \in {"Machine", "Package", "NumaNode", "Core", "PU",
                         "L1Cache", "L2Cache", "L3Cache", "L4Cache", "L5Cache"}

\* The nodes of a tree that stand for a native object.
NodesOf(t, obj) == {i \in 0..(len(t) - 1) : Ok(t.nodes[i + 1].data) = Element_try_from(obj)}

NodeOf(t, obj) == CHOOSE i \in NodesOf(t, obj) : TRUE

\* Node a is a strict ancestor of node b.
IsAncestorNode(t, a, b) == contains(ancestor_ids(t, b)[2], a)

\* detect(mode) was the last call and returned a Topology.
Detected(mode) == last.op = "detect" /\ last.arg = <<mode>> /\ is_ok(last.result)

\* Machine -> Package -> Core -> two PUs, no memory children.
FourLevels ==
    [root_object |-> Some(Object([par  |-> <<0, 1, 2, 3, 3>>,
                                  type |-> <<"Machine", "Package", "Core", "PU", "PU">>],
                                 [i \in 1..5 |-> 0], 1))]

\* C19: the tree that detect(Full) returns has exactly one node for every
\* native object that is the root or below it along ordinary-child edges and
\* has an Element; the node of A is an ancestor of the node of B exactly when
\* B is below A; and Machine -> Package -> Core -> two PUs gives the four
\* levels Machine, Package, Core, two Threads.
C19_FullMirrorsNative ==
    Detected(Full) =>
        LET t        == last.result[2].tree
            root_obj == unwrap(topo.root_object)
            objs     == {o \in {root_obj} \cup Below(root_obj) : HasElement(o)}
        IN  /\ \A A \in objs : Cardinality(NodesOf(t, A)) = 1
            /\ \A A \in objs : \A B \in objs :
                  IsAncestorNode(t, NodeOf(t, A), NodeOf(t, B)) <=> B \in Below(A)
            /\ topo = FourLevels =>
                  t.nodes = << [data |-> Machine, children |-> Some(<<1>>)],
                               [data |-> Processing("Package", 2), children |-> Some(<<2>>)],
                               [data |-> Processing("Core", 3), children |-> Some(<<3, 4>>)],
                               [data |-> Processing("Thread", 4), children |-> None],
                               [data |-> Processing("Thread", 5), children |-> None] >>

\* detect(Full) returned the tree of Machine -> Package -> Core -> two PUs.
C19_Witness ==
    /\ Detected(Full)
    /\ topo = FourLevels
    /\ len(last.result[2].tree) = 5
    /\ ancestor_ids(last.result[2].tree, 4) = Value(<<2, 1, 0>>)

\* The native object that has obj among its ordinary children.
NativeParent(root_obj, obj) ==
    CHOOSE o \in {root_obj} \cup Below(root_obj) :
        \E k \in 1..Len(o.children) : o.children[k] = obj

RECURSIVE NearestMaterialized(_, _, _)
\* The node of the nearest object, from obj upwards, that has a node.
NearestMaterialized(t, root_obj, obj) ==
    IF NodesOf(t, obj) # {} THEN NodeOf(t, obj)
    ELSE NearestMaterialized(t, root_obj, NativeParent(root_obj, obj))

RECURSIVE EffectiveNode(_, _, _)
\* The node that stands in for obj as a parent: the node of the memory child
\* of the nearest object, from obj upwards to the first that has a node,
\* that has a memory child; the node of that first object when none has.
EffectiveNode(t, root_obj, obj) ==
    IF Len(obj.memory_children) = 1 THEN NodeOf(t, obj.memory_children[1])
    ELSE IF NodesOf(t, obj) # {} THEN NodeOf(t, obj)
    ELSE EffectiveNode(t, root_obj, NativeParent(root_obj, obj))

\* In the tree that detect(IsolationBoundariesOnly) returned, an object below
\* the root has a node only if its native parent has more than one ordinary
\* child, and then one node only.
OnlyBranchesMaterialized ==
    Detected(IsolationBoundariesOnly) =>
        LET t        == last.result[2].tree
            root_obj == unwrap(topo.root_object)
        IN  \A X \in Below(root_obj) :
                LET P == NativeParent(root_obj, X)
                IN  /\ Cardinality(NodesOf(t, X)) <= 1
                    /\ NodesOf(t, X) # {} => Len(P.children) > 1
                    /\ Len(P.children) = 1 => NodesOf(t, X) = {}

\* The pairs <<X, n>> of an only child X and the node n of one of its
\* children.
Spliced(t, root_obj) ==
    UNION {{<<X, NodeOf(t, X.children[k])>> :
               k \in {j \in 1..Len(X.children) : NodesOf(t, X.children[j]) # {}}} :
           X \in {o \in Below(root_obj) :
                     Len(NativeParent(root_obj, o).children) = 1}}

\* C20 as stated: under IsolationBoundariesOnly an object has a node only if
\* it is not the sole ordinary child of its parent, and the children of an
\* only child are attached under the node of its nearest materialized
\* ancestor.
C20_UnderNearestMaterialized ==
    /\ OnlyBranchesMaterialized
    /\ Detected(IsolationBoundariesOnly) =>
          LET t        == last.result[2].tree
              root_obj == unwrap(topo.root_object)
          IN  \A s \in Spliced(t, root_obj) :
                  parent_id(t, s[2]) =
                      Some(NearestMaterialized(t, root_obj, NativeParent(root_obj, s[1])))

\* C20, amended: under IsolationBoundariesOnly an object has a node only if
\* it is not the sole ordinary child of its parent, and the children of an
\* only child are attached under the effective parent: the memory node of
\* the only child if it has a memory child, else the memory node of the
\* nearest object above it, up to its nearest materialized ancestor, that has
\* one, else the node of that ancestor.
C20_UnderEffectiveParent ==
    /\ OnlyBranchesMaterialized
    /\ Detected(IsolationBoundariesOnly) =>
          LET t        == last.result[2].tree
              root_obj == unwrap(topo.root_object)
          IN  \A s \in Spliced(t, root_obj) :
                  parent_id(t, s[2]) = Some(EffectiveNode(t, root_obj, s[1]))

\* detect(IsolationBoundariesOnly) returned a tree for a hierarchy in which
\* an only child with a memory child has children that got nodes.
C20_Witness ==
    /\ Detected(IsolationBoundariesOnly)
    /\ \E X \in Below(unwrap(topo.root_object)) :
          /\ Len(NativeParent(unwrap(topo.root_object), X).children) = 1
          /\ Len(X.memory_children) = 1
          /\ Len(X.children) > 1
          /\ \A k \in 1..Len(X.children) :
                NodesOf(last.result[2].tree, X.children[k]) # {}

\* C21 as stated: detect(IsolationBoundariesOnly) on Machine -> Package ->
\* Core -> two PUs returns Machine -> Core -> {Thread, Thread}: the Package
\* has no node, the Core node is the only child of the root and both Threads
\* are children of the Core node.
C21_ScenarioB_KeepsCore ==
    (Detected(IsolationBoundariesOnly) /\ topo = FourLevels) =>
        last.result[2].tree.nodes =
            << [data |-> Machine, children |-> Some(<<1>>)],
               [data |-> Processing("Core", 3), children |-> Some(<<2, 3>>)],
               [data |-> Processing("Thread", 4), children |-> None],
               [data |-> Processing("Thread", 5), children |-> None] >>

\* C21, amended: detect(IsolationBoundariesOnly) on Machine -> Package ->
\* Core -> two PUs returns Machine -> {Thread, Thread}: the Package and the
\* Core, each the sole child of its parent, have no node, and both Threads
\* are children of the root.
C21_ScenarioB_TwoLevels ==
    (Detected(IsolationBoundariesOnly) /\ topo = FourLevels) =>
        /\ last.result[2].tree.nodes =
               << [data |-> Machine, children |-> Some(<<1, 2>>)],
                  [data |-> Processing("Thread", 4), children |-> None],
                  [data |-> Processing("Thread", 5), children |-> None] >>
        /\ tree = last.result[2].tree

\* detect(IsolationBoundariesOnly) returned a tree for Machine -> Package ->
\* Core -> two PUs.
C21_Witness ==
    /\ Detected(IsolationBoundariesOnly)
    /\ topo = FourLevels
    /\ parent_id(last.result[2].tree, 2) = Some(0)

\* The objects that the reduction visits: the root and those below it.
Visited == {unwrap(topo.root_object)} \cup Below(unwrap(topo.root_object))

\* The visited objects with more than one memory child. Objects are visited
\* in the order of their os_index.
Unsupported == {o \in Visited : Len(o.memory_children) > 1}

\* C22: when a visited object has more than one memory child, detect, under
\* either mode, returns the error MemoryArity(n), n being the memory arity of
\* the first such object visited, and no Topology; when none has, the error
\* is not returned.
C22_MemoryArityFails ==
    (last.op = "detect" /\ is_some(topo.root_object)) =>
        IF Unsupported # {}
        THEN LET first == CHOOSE o \in Unsupported :
                              \A p \in Unsupported : o.os_index <= p.os_index
             IN  /\ last.result = Err(MemoryArity(Len(first.memory_children)))
                 /\ tree = last.before
        ELSE is_ok(last.result)

\* detect failed on a Die with three memory children that is visited before
\* a Package with two.
C22_Witness ==
    /\ last.op = "detect"
    /\ last.result = Err(MemoryArity(3))
    /\ \E o \in Unsupported : Len(o.memory_children) = 2

ClassOf ==
    [processing_element_ids |-> {e \in Elements : e[1] = "Processing"},
     package_ids   |-> {Processing("Package", 0)},
     numa_node_ids |-> {Processing("NumaNode", 0)},
     core_ids      |-> {Processing("Core", 0)},
     thread_ids    |-> {Processing("Thread", 0)},
     cache_ids     |-> {e \in Elements : e[1] = "Cache"},
     l1_cache_ids  |-> {e \in Elements : e[1] = "Cache" /\ e[2] = "L1"},
     l2_cache_ids  |-> {},
     l3_cache_ids  |-> {e \in Elements : e[1] = "Cache" /\ e[2] = "L3"},
     l4_cache_ids  |-> {},
     l5_cache_ids  |-> {}]

\* The ids of s go strictly up, and they are the ids of the tree whose
\* element is one of accepted.
YieldsExactly(s, accepted) ==
    /\ \A i, j \in 1..Len(s) : i < j => s[i] < s[j]
    /\ {s[i] : i \in 1..Len(s)} =
           {id \in 0..(len(tree) - 1) : unwrap(get_by_id(tree, id)) \in accepted}

\* C24: filter_elements yields, in strictly increasing order and each once,
\* exactly the ids of the elements that the predicate accepts; so every id
\* that a node-class query yields is an id of the tree whose element is of
\* that class, and the query misses none.
C24_FilterYieldsMatches ==
    /\ last.op = "filter_elements" =>
           YieldsExactly(last.result[2],
                         {e \in Elements : \E p \in last.arg[1] :
                              e = p \/ (Len(p) = 1 /\ e[1] = p[1])})
    /\ last.op \in DOMAIN ClassOf =>
           YieldsExactly(last.result[2], ClassOf[last.op])

\* cache_ids skipped the root and yielded the two caches below it, of
\* different levels.
C24_Witness ==
    /\ last.op = "cache_ids"
    /\ last.result = Value(<<1, 2>>)
    /\ get_by_id(tree, 1) # get_by_id(tree, 2)

\* The node handed as parent_node_id to the reducer when it visits obj: the
\* node of obj if it has one, else the effective parent of the level above.
CurrentNode(t, root_obj, obj) ==
    IF NodesOf(t, obj) # {} THEN NodeOf(t, obj)
    ELSE EffectiveNode(t, root_obj, NativeParent(root_obj, obj))

RECURSIVE Attached(_, _)
\* The nodes that obj attaches to the effective parent of the level it is
\* on: its own node if it has one; else the node of its memory child; else
\* the nodes that its ordinary children attach.
Attached(t, obj) ==
    IF NodesOf(t, obj) # {} THEN {NodeOf(t, obj)}
    ELSE IF Len(obj.memory_children) = 1 THEN {NodeOf(t, obj.memory_children[1])}
    ELSE UNION {Attached(t, obj.children[k]) : k \in 1..Len(obj.children)}

\* The nodes of the objects below obj and of their memory children.
NodesBelow(t, obj) ==
    UNION {NodesOf(t, o) \cup UNION {NodesOf(t, o.memory_children[j]) :
                                        j \in 1..Len(o.memory_children)} :
           o \in Below(obj)}

\* C25: under either mode, the memory child of a visited object that has
\* exactly one gets one node, a NumaNode, under the node that is the current
\* parent when the object is visited, with an id below that of every node
\* that comes from the object's ordinary children; and the nodes that those
\* children attach are under the memory node.
C25_MemoryNodeIsEffectiveParent ==
    (last.op = "detect" /\ is_ok(last.result)) =>
        LET t        == last.result[2].tree
            root_obj == unwrap(topo.root_object)
        IN  \A O \in {o \in Visited : Len(o.memory_children) = 1} :
                LET mem == O.memory_children[1]
                IN  /\ Cardinality(NodesOf(t, mem)) = 1
                    /\ unwrap(get_by_id(t, NodeOf(t, mem)))
                           = Processing("NumaNode", mem.os_index)
                    /\ parent_id(t, NodeOf(t, mem)) = Some(CurrentNode(t, root_obj, O))
                    /\ \A n \in NodesBelow(t, O) : NodeOf(t, mem) < n
                    /\ \A k \in 1..Len(O.children) :
                          \A n \in Attached(t, O.children[k]) :
                              parent_id(t, n) = Some(NodeOf(t, mem))

\* detect(IsolationBoundariesOnly) returned a tree for a hierarchy whose
\* Package is an only child, so without a node, and has a memory child and
\* two children that got nodes under the memory node.
C25_Witness ==
    /\ Detected(IsolationBoundariesOnly)
    /\ \E O \in Visited :
          /\ O.object_type = "Package"
          /\ NodesOf(tree, O) = {}
          /\ Len(O.memory_children) = 1
          /\ Len(O.children) = 2
          /\ \A k \in 1..2 :
                /\ NodesOf(tree, O.children[k]) # {}
                /\ parent_id(tree, NodeOf(tree, O.children[k]))
                       = Some(NodeOf(tree, O.memory_children[1]))

\* The memory children of the visited objects.
MemoryChildren ==
    UNION {{o.memory_children[j] : j \in 1..Len(o.memory_children)} : o \in Visited}

\* C26: under either mode, an ordinary child without an Element (a Die) gets
\* no node, with siblings or without: every node of the tree is that of an
\* object that has an Element. The reduction goes on into it under the
\* effective parent of the level it is on: its memory child, if it has one,
\* gets its node under that effective parent; its children get their nodes
\* (all of them under Full, and when they are several under
\* IsolationBoundariesOnly); and what it attaches is under that effective
\* parent.
C26_UntranslatableIsTransparent ==
    (last.op = "detect" /\ is_ok(last.result)) =>
        LET t        == last.result[2].tree
            root_obj == unwrap(topo.root_object)
        IN  /\ \A n \in 0..(len(t) - 1) :
                  \E o \in Visited \cup MemoryChildren :
                      HasElement(o) /\ n \in NodesOf(t, o)
            /\ \A D \in {o \in Below(root_obj) : ~HasElement(o)} :
                  /\ \A j \in 1..Len(D.memory_children) :
                        Cardinality(NodesOf(t, D.memory_children[j])) = 1
                  /\ \A k \in 1..Len(D.children) :
                        (last.arg = <<Full>> \/ Len(D.children) > 1)
                            => Cardinality(NodesOf(t, D.children[k])) = 1
                  /\ \A n \in Attached(t, D) :
                        parent_id(t, n)
                            = Some(EffectiveNode(t, root_obj, NativeParent(root_obj, D)))

\* detect(IsolationBoundariesOnly) returned a tree for a hierarchy in which
\* a Die has a sibling and a memory child, whose node is under the effective
\* parent of the Die's level.
C26_Witness ==
    /\ Detected(IsolationBoundariesOnly)
    /\ \E D \in Below(unwrap(topo.root_object)) :
          /\ D.object_type = "Die"
          /\ Len(NativeParent(unwrap(topo.root_object), D).children) = 2
          /\ Len(D.memory_children) = 1
          /\ parent_id(tree, NodeOf(tree, D.memory_children[1]))
                 = Some(EffectiveNode(tree, unwrap(topo.root_object),
                                      NativeParent(unwrap(topo.root_object), D)))

\* C27: an insert that failed, with RootReplacement or NonExistentParent,
\* left the nodes as they were, payloads and child lists, so len too; and
\* any insert made next returns, and leaves as nodes, what it would if the
\* failed call had not been made.
C27_FailedInsertChangesNothing ==
    (last.op = "insert" /\ is_err(last.result)) =>
        /\ last.result[2] \in {RootReplacement} \cup {NonExistentParent(p) : p \in Ids}
        /\ tree.nodes = last.before.nodes
        /\ len(tree) = len(last.before)
        /\ \A element \in Data, mode \in {AsRoot} \cup {Under(p) : p \in Ids} :
              /\ insert(tree, element, mode, IdBits, TRUE).result
                     = insert(last.before, element, mode, IdBits, TRUE).result
              /\ insert(tree, element, mode, IdBits, TRUE).tree.nodes
                     = insert(last.before, element, mode, IdBits, TRUE).tree.nodes

\* An insert failed on a store of two nodes that had been read from a
\* document: its counter was recomputed, its nodes stayed.
C27_Witness ==
    /\ last.op = "insert"
    /\ is_err(last.result)
    /\ len(tree) = 2
    /\ last.before.next_node_id = 0
    /\ tree.next_node_id = 2

\* C28: in a store built by inserts alone, a child list that is present is
\* not empty, and a node has a child list exactly when an insert under it has
\* succeeded; so the nodes without a list are the leaves, those that are the
\* parent of no node.
C28_PresentListNonEmpty ==
    \A id \in 0..(len(tree) - 1) :
        LET tn == tree.nodes[id + 1]
        IN  /\ is_some(tn.children) => Len(unwrap(tn.children)) >= 1
            /\ is_some(tn.children) <=>
                   \E c \in 1..Len(calls) : calls[c][2] = Under(id)
            /\ is_none(tn.children) <=>
                   ~\E child \in 0..(len(tree) - 1) : parent_id(tree, child) = Some(id)

\* A store with a root that has a list of two and two nodes without a list.
C28_Witness ==
    /\ len(tree) = 3
    /\ tree.nodes[1].children = Some(<<1, 2>>)
    /\ is_none(tree.nodes[2].children)
    /\ is_none(tree.nodes[3].children)
    /\ last.op = "insert"

\* C29: on a store built by inserts, for every id of the store,
\* leaf_descendant_ids(id) ends and yields each node that is id or below it
\* and has no children, once and no other; and of two leaves that are under
\* two different children of one node, the one under the child inserted later
\* is yielded first.
C29_LeavesOnceLastInsertedFirst ==
    \A id \in 0..(len(tree) - 1) :
        LET r == leaf_descendant_ids(tree, id)
        IN  /\ is_ok(r)
            /\ \A j, k \in 1..Len(r[2]) : j # k => r[2][j] # r[2][k]
            /\ {r[2][k] : k \in 1..Len(r[2])} =
                   {n \in 0..(len(tree) - 1) :
                       /\ IsSelfOrDescendant(tree, id, n, len(tree))
                       /\ ChildList(tree, n + 1) = <<>>}
            /\ \A j, k \in 1..Len(r[2]) :
                  \A c1, c2 \in 1..(len(tree) - 1) :
                      (/\ j < k
                       /\ c1 # c2
                       /\ parent_id(tree, c1) = parent_id(tree, c2)
                       /\ IsSelfOrDescendant(tree, c1, r[2][j], len(tree))
                       /\ IsSelfOrDescendant(tree, c2, r[2][k], len(tree)))
                          => c1 > c2

\* The leaves under the root were asked for on the store 0 -> {1 -> {3}, 2}:
\* 2, the child inserted later, comes before 3, the leaf under 1.
C29_Witness ==
    /\ last.op = "leaf_descendant_ids"
    /\ last.arg = <<0>>
    /\ last.result = Ok(<<2, 3>>)
    /\ parent_id(tree, 3) = Some(1)

\* The elements of a tree in the order of the ids.
ElementsOf(t) == [i \in 1..len(t) |-> t.nodes[i].data]

RECURSIVE IsSubsequence(_, _)
\* s is t with some of its items left out.
IsSubsequence(s, t) ==
    IF s = <<>> THEN TRUE
    ELSE IF t = <<>> THEN FALSE
    ELSE IF Head(s) = Head(t) THEN IsSubsequence(Tail(s), Tail(t))
    ELSE IsSubsequence(s, Tail(t))

\* C30: for one topology, detect fails under IsolationBoundariesOnly exactly
\* when it fails under Full; when it does not, the two trees have the same
\* root element and the elements of the IsolationBoundariesOnly tree, in the
\* order of the ids, are a subsequence of those of the Full tree, so they are
\* no more.
C30_IsolationReducesFull ==
    last.op = "detect" =>
        LET full == IF last.arg = <<Full>> THEN last.result ELSE detect(topo, Full)
            isol == IF last.arg = <<IsolationBoundariesOnly>> THEN last.result
                    ELSE detect(topo, IsolationBoundariesOnly)
        IN  /\ is_ok(full) <=> is_ok(isol)
            /\ is_ok(full) =>
                  /\ root(isol[2].tree) = root(full[2].tree)
                  /\ IsSubsequence(ElementsOf(isol[2].tree), ElementsOf(full[2].tree))
                  /\ len(isol[2].tree) <= len(full[2].tree)

\* detect(IsolationBoundariesOnly) returned a tree of three nodes or more
\* right after detect(Full) had returned a larger one for the same topology.
C30_Witness ==
    /\ Detected(IsolationBoundariesOnly)
    /\ Ok([tree |-> last.before]) = detect(topo, Full)
    /\ len(tree) >= 3
    /\ len(tree) < len(last.before)

====
